---------------------------- MODULE Spec2Model ----------------------------
(***************************************************************************)
(* A model of the DSA knowledge-graph lookup tool: the search engine       *)
(* (src/search_engine.py) and the tutor engine (src/tutor_engine.py),      *)
(* their start-up beside the catalogue builder and the command loop        *)
(* (src/graph_builder.py, src/main_cli.py), and the description scraper    *)
(* (src/scraper.py).  Spec holds the requests to constructed engines,      *)
(* SpecStartup the behaviours from process start, SpecFetch those of       *)
(* fetch_description.                                                      *)
(*                                                                         *)
(* Text is a sequence of one-character strings.  A similarity score is a   *)
(* fraction <<numerator, denominator>>; fractions are compared by cross    *)
(* multiplication, which agrees with the comparison of the correctly       *)
(* rounded floating-point quotients the program computes.                  *)
(***************************************************************************)
EXTENDS Integers, Sequences, FiniteSets, TLC

(***************************************************************************)
(* Bounds of the model.                                                    *)
(***************************************************************************)
\* longest query text that is enumerated exhaustively over Alphabet
MaxLen == 2

(***************************************************************************)
(* Characters.                                                             *)
(***************************************************************************)
\* the letters, and the characters the model's texts use in code-point
\* order
Uppers ==
  << "A", "B", "C", "D", "E", "F", "G", "H", "I", "J", "K", "L", "M",
     "N", "O", "P", "Q", "R", "S", "T", "U", "V", "W", "X", "Y", "Z" >>

Lowers ==
  << "a", "b", "c", "d", "e", "f", "g", "h", "i", "j", "k", "l", "m",
     "n", "o", "p", "q", "r", "s", "t", "u", "v", "w", "x", "y", "z" >>

Chars == << "\t", " ", "-", ".", "/", "?" >> \o Uppers \o << "_" >> \o Lowers

\* the characters of a sequence of characters
chars_of(seq) == {seq[i] : i \in 1..Len(seq)}

CharSet == chars_of(Chars)

\* the position of character c in seq
index_in(seq, c) == CHOOSE i \in 1..Len(seq) : seq[i] = c

\* the position of each character in Chars
CodeTable == [c \in CharSet |-> index_in(Chars, c)]

CharCode(c) == CodeTable[c]

\* c with a letter of the alphabet from replaced by the same letter of to
swap_case(from, to, c) ==
  IF \E i \in 1..Len(from) : from[i] = c THEN to[index_in(from, c)] ELSE c

LowerTable == [c \in CharSet |-> swap_case(Uppers, Lowers, c)]

\* str.lower() on one character
LowerChar(c) == LowerTable[c]

\* str.isspace() on one character
IsSpace(c) == c \in {" ", "\t"}

(***************************************************************************)
(* Python str operations.                                                  *)
(***************************************************************************)
lower(s) == [i \in 1..Len(s) |-> LowerChar(s[i])]

RECURSIVE lstrip(_)
lstrip(s) == IF s # <<>> /\ IsSpace(Head(s)) THEN lstrip(Tail(s)) ELSE s

RECURSIVE rstrip(_)
rstrip(s) ==
  IF s # <<>> /\ IsSpace(s[Len(s)]) THEN rstrip(SubSeq(s, 1, Len(s) - 1)) ELSE s

strip(s) == rstrip(lstrip(s))

\* s.replace(ch, "_") for a single character ch
replace_char(s, ch, by) == [i \in 1..Len(s) |-> IF s[i] = ch THEN by ELSE s[i]]

\* s.startswith(p)
startswith(s, p) == Len(s) >= Len(p) /\ SubSeq(s, 1, Len(p)) = p

\* s.find(q): 0-based index of the first occurrence, -1 when there is none
find(s, q) ==
  LET hits == {i \in 0..(Len(s) - Len(q)) : SubSeq(s, i + 1, i + Len(q)) = q}
  IN  IF hits = {} THEN -1 ELSE CHOOSE i \in hits : \A j \in hits : i <= j

\* q in s
contains(s, q) == find(s, q) # -1

\* s[lo:hi] with 0 <= lo <= hi
slice(s, lo, hi) == SubSeq(s, lo + 1, IF hi < Len(s) THEN hi ELSE Len(s))

\* s1 < s2 in Python's string order (by code point, a prefix is smaller)
RECURSIVE str_less(_, _)
str_less(s1, s2) ==
  IF s2 = <<>> THEN FALSE
  ELSE IF s1 = <<>> THEN TRUE
  ELSE IF Head(s1) = Head(s2) THEN str_less(Tail(s1), Tail(s2))
  ELSE CharCode(Head(s1)) < CharCode(Head(s2))

(***************************************************************************)
(* normalize_key                                                           *)
(***************************************************************************)
\* one pass of t.replace("__", "_"): non-overlapping, left to right
RECURSIVE replace_double(_)
replace_double(t) ==
  IF Len(t) < 2 THEN t
  ELSE IF t[1] = "_" /\ t[2] = "_"
       THEN <<"_">> \o replace_double(SubSeq(t, 3, Len(t)))
       ELSE <<t[1]>> \o replace_double(Tail(t))

\* while "__" in t: t = t.replace("__", "_")
RECURSIVE collapse(_)
collapse(t) == IF contains(t, <<"_", "_">>) THEN collapse(replace_double(t)) ELSE t

\* the normalization without the lower-casing
normalize_key_no_lower(text) ==
  LET t0 == strip(text)
      t1 == replace_char(t0, " ", "_")
      t2 == replace_char(t1, "-", "_")
      t3 == replace_char(t2, "/", "_")
  IN  collapse(t3)

normalize_key(text) ==
  LET t0 == lower(strip(text))
      t1 == replace_char(t0, " ", "_")
      t2 == replace_char(t1, "-", "_")
      t3 == replace_char(t2, "/", "_")
  IN  collapse(t3)

(***************************************************************************)
(* Scores.                                                                 *)
(***************************************************************************)
Zero == <<0, 1>>

\* r1 >= r2, r1 > r2 and r1 = r2 as numbers
score_ge(r1, r2) == r1[1] * r2[2] >= r2[1] * r1[2]
score_gt(r1, r2) == r1[1] * r2[2] > r2[1] * r1[2]
score_eq(r1, r2) == r1[1] * r2[2] = r2[1] * r1[2]

Max(S) == CHOOSE x \in S : \A y \in S : y <= x
Min(S) == CHOOSE x \in S : \A y \in S : x <= y

(***************************************************************************)
(* difflib.SequenceMatcher without junk (autojunk acts from 200 elements). *)
(***************************************************************************)
\* length of the common run of a and b that starts at a[i], b[j] (0-based)
\* and stays inside a[..ahi), b[..bhi)
RECURSIVE run_len(_, _, _, _, _, _)
run_len(a, b, i, j, ahi, bhi) ==
  IF i < ahi /\ j < bhi /\ a[i + 1] = b[j + 1]
  THEN 1 + run_len(a, b, i + 1, j + 1, ahi, bhi)
  ELSE 0

\* of the runs <<i, j, size>> the longest one, of the longest the one that
\* starts earliest in a, and of those the one that starts earliest in b
longest_run(runs, alo, blo) ==
  LET bestsize == Max({r[3] : r \in runs} \cup {0})
      besti == Min({r[1] : r \in {o \in runs : o[3] = bestsize}})
      bestj == Min({r[2] : r \in {o \in runs : o[3] = bestsize /\ o[1] = besti}})
  IN  IF bestsize = 0 THEN <<alo, blo, 0>> ELSE <<besti, bestj, bestsize>>

\* the longest matching block in a[alo:ahi], b[blo:bhi]
find_longest_match(a, b, alo, ahi, blo, bhi) ==
  longest_run({<<i, j, run_len(a, b, i, j, ahi, bhi)>> :
                 i \in alo..(ahi - 1), j \in blo..(bhi - 1)},
              alo, blo)

\* the sum of the sizes of get_matching_blocks(): the longest block m, and
\* the blocks to its left and to its right
RECURSIVE matches(_, _, _, _, _, _)
matches_around(a, b, alo, ahi, blo, bhi, m) ==
  IF m[3] = 0 THEN 0
  ELSE m[3]
       + (IF alo < m[1] /\ blo < m[2] THEN matches(a, b, alo, m[1], blo, m[2]) ELSE 0)
       + (IF m[1] + m[3] < ahi /\ m[2] + m[3] < bhi
          THEN matches(a, b, m[1] + m[3], ahi, m[2] + m[3], bhi) ELSE 0)

matches(a, b, alo, ahi, blo, bhi) ==
  matches_around(a, b, alo, ahi, blo, bhi,
                 find_longest_match(a, b, alo, ahi, blo, bhi))

\* _calculate_ratio
calculate_ratio(m, length) == IF length > 0 THEN <<2 * m, length>> ELSE <<1, 1>>

\* SequenceMatcher(None, a, b).ratio()
ratio(a, b) == calculate_ratio(matches(a, b, 0, Len(a), 0, Len(b)), Len(a) + Len(b))

count(s, c) == Cardinality({i \in 1..Len(s) : s[i] = c})

RECURSIVE sum_min_counts(_, _, _)
sum_min_counts(a, b, cs) ==
  IF cs = {} THEN 0
  ELSE LET c == CHOOSE x \in cs : TRUE
           ca == count(a, c)
           cb == count(b, c)
       IN  (IF ca < cb THEN ca ELSE cb) + sum_min_counts(a, b, cs \ {c})

\* SequenceMatcher.quick_ratio(): an upper bound from the multisets
quick_ratio(a, b) ==
  calculate_ratio(sum_min_counts(a, b, {a[i] : i \in 1..Len(a)}), Len(a) + Len(b))

\* SequenceMatcher.real_quick_ratio(): an upper bound from the lengths
real_quick_ratio(a, b) ==
  calculate_ratio(IF Len(a) < Len(b) THEN Len(a) ELSE Len(b), Len(a) + Len(b))

\* similarity(a, b)
similarity(a, b) ==
  IF a = <<>> \/ b = <<>> THEN Zero ELSE ratio(lower(a), lower(b))

(***************************************************************************)
(* Words the texts of the model are built from.                            *)
(***************************************************************************)
RECURSIVE join(_, _)
join(words, sep) ==
  IF words = <<>> THEN <<>>
  ELSE IF Len(words) = 1 THEN words[1]
  ELSE words[1] \o sep \o join(Tail(words), sep)

UpperChar(c) == swap_case(Lowers, Uppers, c)

Cap(w) == <<UpperChar(w[1])>> \o Tail(w)
Upper(w) == [i \in 1..Len(w) |-> UpperChar(w[i])]

SP == <<" ">>
US == <<"_">>
TAB == <<"\t">>
Sentence(words) == join(words, SP) \o <<".">>

W_a == <<"a">>
W_access == <<"a", "c", "c", "e", "s", "s">>
W_algorithm == <<"a", "l", "g", "o", "r", "i", "t", "h", "m">>
W_arrays == <<"a", "r", "r", "a", "y", "s">>
W_bfs == <<"b", "f", "s">>
W_binary == <<"b", "i", "n", "a", "r", "y">>
W_breadth == <<"b", "r", "e", "a", "d", "t", "h">>
W_bst == <<"b", "s", "t">>
W_data == <<"d", "a", "t", "a">>
W_define == <<"d", "e", "f", "i", "n", "e">>
W_efficient == <<"e", "f", "f", "i", "c", "i", "e", "n", "t">>
W_explain == <<"e", "x", "p", "l", "a", "i", "n">>
W_fast == <<"f", "a", "s", "t">>
W_first == <<"f", "i", "r", "s", "t">>
W_graph == <<"g", "r", "a", "p", "h">>
W_in == <<"i", "n">>
W_is == <<"i", "s">>
W_lifo == <<"l", "i", "f", "o">>
W_linear == <<"l", "i", "n", "e", "a", "r">>
W_lookup == <<"l", "o", "o", "k", "u", "p">>
W_nodes == <<"n", "o", "d", "e", "s">>
W_on == <<"o", "n">>
W_operation == <<"o", "p", "e", "r", "a", "t", "i", "o", "n">>
W_operations == W_operation \o <<"s">>
W_order == <<"o", "r", "d", "e", "r">>
W_recursion == <<"r", "e", "c", "u", "r", "s", "i", "o", "n">>
W_search == <<"s", "e", "a", "r", "c", "h">>
W_serch == <<"s", "e", "r", "c", "h">>
W_sorted == <<"s", "o", "r", "t", "e", "d">>
W_stack == <<"s", "t", "a", "c", "k">>
W_structure == <<"s", "t", "r", "u", "c", "t", "u", "r", "e">>
W_support == <<"s", "u", "p", "p", "o", "r", "t">>
W_supporting == W_support \o <<"i", "n", "g">>
W_traversal == <<"t", "r", "a", "v", "e", "r", "s", "a", "l">>
W_unknown == <<"u", "n", "k", "n", "o", "w", "n">>
W_tree == <<"t", "r", "e", "e">>
W_visiting == <<"v", "i", "s", "i", "t", "i", "n", "g">>
W_what == <<"w", "h", "a", "t">>

T_data_structure == join(<<W_data, W_structure>>, US)
T_lifo_structure == join(<<W_lifo, W_structure>>, US)
T_binary_search == join(<<W_binary, W_search>>, US)

(***************************************************************************)
(* Stores: the content of the knowledge-graph file.  A store is the keys   *)
(* in file order and the record of each key; a record is a function from   *)
(* the field names it has to their values.  name, description, category   *)
(* and the relation tags are texts, the other fields are atoms.            *)
(***************************************************************************)
\* BASE_CONCEPTS["stack"] as build_knowledge_graph(enrich=False) writes it
Catalogue_stack ==
  [ name |-> Cap(W_stack),
    type |-> "linear_structure",
    category |-> T_data_structure,
    basic_ops |-> <<"push", "pop", "top", "is_empty">>,
    principle |-> "LIFO (Last-In-First-Out)",
    description |->
      Sentence(<<Cap(W_a), W_linear, W_structure, W_supporting, Upper(W_lifo), W_access>>),
    relations |-> <<T_data_structure, T_lifo_structure,
                    join(<<W_recursion, W_support>>, US)>>,
    use_cases |-> <<"function_call_stack", "undo_operations">>,
    id |-> "dsa_stack" ]

\* BASE_CONCEPTS["bst"]
Catalogue_bst ==
  [ name |-> join(<<Cap(W_binary), Cap(W_search), Cap(W_tree)>>, SP),
    type |-> "tree_structure",
    category |-> T_data_structure,
    basic_ops |-> <<"insert", "delete", "search">>,
    principle |-> "Left subtree < root < right subtree.",
    description |->
      Sentence(<<Cap(W_a), W_binary, W_tree, W_supporting, W_fast, W_search, W_operations>>),
    relations |-> <<T_data_structure>>,
    use_cases |-> <<"general_dsa_application">>,
    id |-> "dsa_bst" ]

\* BASE_CONCEPTS["binary_search"]
Catalogue_binary_search ==
  [ name |-> join(<<Cap(W_binary), Cap(W_search)>>, SP),
    type |-> "search_algorithm",
    category |-> W_algorithm,
    basic_ops |-> <<"mid_compare", "divide">>,
    principle |-> "Divide search space by half.",
    description |-> Sentence(<<Cap(W_efficient), W_search, W_on, W_sorted, W_arrays>>),
    relations |-> <<W_algorithm, join(<<W_lookup, W_operation>>, US)>>,
    use_cases |-> <<"general_dsa_application">>,
    id |-> "dsa_binary_search" ]

\* BASE_CONCEPTS["bfs"]
Catalogue_bfs ==
  [ name |-> Cap(W_breadth) \o <<"-">> \o Cap(W_first) \o SP \o Cap(W_search),
    type |-> "graph_algorithm",
    category |-> W_algorithm,
    basic_ops |-> <<"enqueue", "visit">>,
    principle |-> "Level-order exploration.",
    description |->
      Sentence(<<Cap(W_graph), W_traversal, W_visiting, W_nodes, W_in,
                 W_breadth \o <<"-">> \o W_first, W_order>>),
    relations |-> <<W_algorithm, join(<<W_graph, W_traversal>>, US)>>,
    use_cases |-> <<"general_dsa_application">>,
    id |-> "dsa_bfs" ]

\* an excerpt of the built catalogue, in catalogue order
Catalogue ==
  [ keys |-> <<W_stack, W_bst, T_binary_search, W_bfs>>,
    rec |-> (W_stack :> Catalogue_stack) @@ (W_bst :> Catalogue_bst)
            @@ (T_binary_search :> Catalogue_binary_search)
            @@ (W_bfs :> Catalogue_bfs) ]

\* a store with short keys and with records that lack optional fields
Tiny_b_t ==
  [ name |-> <<"B", " ", "T">>,
    type |-> "pair",
    category |-> W_algorithm,
    basic_ops |-> <<"swap">>,
    description |-> <<"s", "t", "-", "b">>,
    relations |-> <<<<"T", "S">>, W_algorithm>>,
    use_cases |-> <<>>,
    id |-> "dsa_b_t" ]

Tiny_tb ==
  [ description |-> <<"b", "t", "s">>,
    relations |-> << <<"t", "s">> >> ]

Tiny_ss == <<>>

Tiny_bs ==
  [ name |-> <<"S", "b">>,
    category |-> T_data_structure,
    description |-> <<>>,
    relations |-> <<T_data_structure>>,
    use_cases |-> <<"general_dsa_application">>,
    id |-> "dsa_bs" ]

Tiny ==
  [ keys |-> << <<"b", "_", "t">>, <<"t", "b">>, <<"s", "s">>, <<"b", "s">> >>,
    rec |-> (<<"b", "_", "t">> :> Tiny_b_t) @@ (<<"t", "b">> :> Tiny_tb)
            @@ (<<"s", "s">> :> Tiny_ss) @@ (<<"b", "s">> :> Tiny_bs) ]

\* BASE_CONCEPTS["queue"]
Catalogue_queue ==
  LET fifo == <<"f", "i", "f", "o">>
  IN  [ name |-> <<"Q", "u", "e", "u", "e">>,
        type |-> "linear_structure",
        category |-> T_data_structure,
        basic_ops |-> <<"enqueue", "dequeue", "front", "is_empty">>,
        principle |-> "FIFO (First-In-First-Out)",
        description |->
          Sentence(<<Cap(W_a), W_linear, W_structure, W_supporting, Upper(fifo), W_access>>),
        relations |-> <<T_data_structure, join(<<fifo, W_structure>>, US),
                        <<"s", "c", "h", "e", "d", "u", "l", "i", "n", "g">> >>,
        use_cases |-> <<"task_scheduling", "bfs_traversal">>,
        id |-> "dsa_queue" ]

\* BASE_CONCEPTS["tree"]
Catalogue_tree ==
  LET hierarchical == <<"h", "i", "e", "r", "a", "r", "c", "h", "i", "c", "a", "l">>
      non == <<"n", "o", "n">>
      consisting == <<"c", "o", "n", "s", "i", "s", "t", "i", "n", "g">>
      of == <<"o", "f">>
      parent == <<"p", "a", "r", "e", "n", "t">>
      child == <<"c", "h", "i", "l", "d">>
      relationships ==
        <<"r", "e", "l", "a", "t", "i", "o", "n", "s", "h", "i", "p", "s">>
  IN  [ name |-> Cap(W_tree),
        type |-> "hierarchical_structure",
        category |-> T_data_structure,
        basic_ops |-> <<"traverse", "depth", "height">>,
        principle |-> "Hierarchical structure of nodes and children.",
        description |->
          Sentence(<<Cap(W_a), non \o <<"-">> \o W_linear, W_structure, consisting, of,
                     W_nodes, W_in, parent \o <<"-">> \o child, relationships>>),
        relations |-> <<T_data_structure, join(<<hierarchical, W_structure>>, US),
                        W_recursion>>,
        use_cases |-> <<"hierarchical_data", "database_indexing">>,
        id |-> "dsa_tree" ]

\* BASE_CONCEPTS["dfs"]
Catalogue_dfs ==
  LET depth == <<"d", "e", "p", "t", "h">>
      exploring == <<"e", "x", "p", "l", "o", "r", "i", "n", "g">>
      paths == <<"p", "a", "t", "h", "s">>
  IN  [ name |-> Cap(depth) \o <<"-">> \o Cap(W_first) \o SP \o Cap(W_search),
        type |-> "graph_algorithm",
        category |-> W_algorithm,
        basic_ops |-> <<"push", "visit">>,
        principle |-> "Explore depth first.",
        description |->
          Sentence(<<Cap(W_graph), W_traversal, exploring,
                     depth \o <<"-">> \o W_first, paths>>),
        relations |-> <<W_algorithm, join(<<W_graph, W_traversal>>, US)>>,
        use_cases |-> <<"general_dsa_application">>,
        id |-> "dsa_dfs" ]

\* a second excerpt of the built catalogue, in catalogue order
Excerpt ==
  [ keys |-> << <<"q", "u", "e", "u", "e">>, W_tree, W_bfs, <<"d", "f", "s">> >>,
    rec |-> (<<"q", "u", "e", "u", "e">> :> Catalogue_queue) @@ (W_tree :> Catalogue_tree)
            @@ (W_bfs :> Catalogue_bfs) @@ (<<"d", "f", "s">> :> Catalogue_dfs) ]

Stores == {Catalogue, Tiny, Excerpt}

(***************************************************************************)
(* Query texts.                                                            *)
(***************************************************************************)
Alphabet == {"b", "s", "t", "B", " ", "_", "-"}

\* every text over Alphabet of length at most n
Texts(n) == UNION {[1..m -> Alphabet] : m \in 0..n}

\* longest tail enumerated behind a leading phrase
MaxTail == 1

PrefixForms ==
  { W_explain \o SP, Cap(W_what) \o SP \o W_is \o SP, Upper(W_define) \o SP }

NamedQueries ==
  { Cap(W_explain) \o SP \o W_stack,
    W_binary \o SP \o W_serch,
    T_lifo_structure,
    Upper(W_lifo) \o US \o Cap(W_structure),
    T_data_structure,
    W_lifo,
    W_explain \o SP,
    W_explain,
    Cap(W_define) \o SP \o SP,
    Upper(W_explain) \o SP \o W_bst,
    W_what \o SP \o W_is \o SP \o W_bfs,
    Cap(W_what) \o SP \o Cap(W_is) \o SP \o SP \o Cap(W_binary) \o <<"-">> \o Cap(W_search),
    W_define \o SP \o <<"b", " ", "t">>,
    <<"b", "-", "t">>,
    <<"B", "/", "T">>,
    <<" ", "b", " ", "-", "/", "_", "t", "\t">>,
    <<"-", "b", "_", "t">>,
    <<"t", "-", "b">>,
    Cap(W_binary) \o SP \o Cap(W_search),
    W_binary \o <<"/">> \o W_search,
    SP \o SP \o W_binary \o SP \o SP \o W_search \o SP,
    W_binary \o TAB \o W_search,
    W_explain \o TAB \o W_stack,
    W_explain \o SP \o W_explain \o SP \o W_stack,
    TAB \o W_bst \o TAB,
    SP \o W_define \o SP \o W_bst,
    W_what \o SP \o W_is \o SP \o W_binary \o SP \o W_search \o <<"?">>,
    W_bst,
    W_stack,
    <<"t", "b", "t">>,
    <<"b", " ", "t">>,
    <<"e", "t", "e", "u", "e">>,
    <<"f", "s">>,
    W_tree,
    <<"s", "h", "i", "p", "s">>,
    Cap(W_a) \o SP \o <<"n", "o", "n">>,
    W_lifo \o SP \o W_structure,
    <<" ", "t", "s">> }

Queries ==
  Texts(MaxLen) \cup NamedQueries
  \cup {p \o t : p \in PrefixForms, t \in Texts(MaxTail)}

\* fuzzy_search(q, limit=5, cutoff=0.6)
DefaultLimit == 5
DefaultCutoff == <<3, 5>>
Limits == {1, DefaultLimit}
Cutoffs == {DefaultCutoff, <<4, 5>>}

(***************************************************************************)
(* State.                                                                  *)
(***************************************************************************)
VARIABLES
  kg,        \* DsaTutorEngine.kg: the tutor's own load of the file
  graph,     \* KnowledgeGraphSearch.graph: the search engine's load
  pc,        \* "idle": waiting for a request; "done": a result is held
  op,        \* the operation that produced the result
  arg,       \* its arguments: [q, limit, cutoff]
  ret,       \* its return value, in the field of its kind
  searched,  \* the queries it passed to comprehensive_search, in order
  file,      \* data/knowledge_graph.json: missing, half written, or a store
  cli,       \* main_cli.main: where it is, and what its last pass printed
  fetch      \* scraper.fetch_description: where it is, and what it tried

vars == <<kg, graph, pc, op, arg, ret, searched, file, cli, fetch>>

(***************************************************************************)
(* Python values.                                                          *)
(***************************************************************************)
\* None
None == <<"None">>

\* the dict object stored under key k in the load called store.  The two
\* loads of the file create distinct objects, so identity (the `is`
\* operator) is equality of these references.
Obj(store, k) == <<store, k>>

\* the record a reference points to
Deref(ref) == IF ref[1] = "kg" THEN kg.rec[ref[2]] ELSE graph.rec[ref[2]]

\* d.get(f, default)
get(d, f, default) == IF f \in DOMAIN d THEN d[f] ELSE default

\* truth value of an optional dict reference: None and {} are false
Truthy(ref) == ref # None /\ DOMAIN Deref(ref) # {}

\* the keys of an ordered mapping held as a sequence of entries
KeysOf(entries) == [i \in 1..Len(entries) |-> entries[i].key]
InSeq(x, seq) == \E i \in 1..Len(seq) : seq[i] = x

(***************************************************************************)
(* snippet(text, q, w=60)                                                  *)
(***************************************************************************)
SnippetWindow == 60
Ellipsis == <<".", ".", ".">>

\* text[start:end] with "..." on each side that was cut
snippet_window(text, start, end) ==
  (IF start > 0 THEN Ellipsis ELSE <<>>)
  \o slice(text, start, end)
  \o (IF end < Len(text) THEN Ellipsis ELSE <<>>)

\* the snippet taken from the start of the text wherever the match is
snippet_at_head(text, q, w, idx) == slice(text, 0, w) \o Ellipsis

\* snippet once idx = text.lower().find(q.lower()) is known
snippet_at(text, q, w, idx) ==
  IF idx = -1 THEN slice(text, 0, w * 2) \o Ellipsis
  ELSE snippet_window(text,
                      IF idx - w > 0 THEN idx - w ELSE 0,
                      IF Len(text) < idx + Len(q) + w
                      THEN Len(text) ELSE idx + Len(q) + w)

snippet(text, q, w) ==
  IF text = <<>> THEN <<>>
  ELSE snippet_at(text, q, w, find(lower(text), lower(q)))

(***************************************************************************)
(* difflib.get_close_matches(word, possibilities, n, cutoff)               *)
(***************************************************************************)
\* (score, x) tuples in Python's tuple order
tuple_gt(t1, t2) ==
  \/ score_gt(t1[1], t2[1])
  \/ score_eq(t1[1], t2[1]) /\ str_less(t2[2], t1[2])

\* heapq.nlargest(n, result): sorted(result, reverse=True)[:n]
RECURSIVE nlargest(_, _)
largest_then_rest(n, result, top) ==
  <<result[top]>>
  \o nlargest(n - 1, [j \in 1..(Len(result) - 1) |->
                       IF j < top THEN result[j] ELSE result[j + 1]])

nlargest(n, result) ==
  IF n = 0 \/ result = <<>> THEN <<>>
  ELSE largest_then_rest(n, result,
         CHOOSE i \in 1..Len(result) :
           \A j \in 1..Len(result) : j = i \/ tuple_gt(result[i], result[j]))

\* one candidate x of score r: kept when the three tests pass, each test
\* made only when the one before it passes
candidate(x, word, cutoff, r) ==
  IF /\ score_ge(real_quick_ratio(x, word), cutoff)
     /\ score_ge(quick_ratio(x, word), cutoff)
     /\ score_ge(r, cutoff)
  THEN << <<r, x>> >>
  ELSE <<>>

\* the candidates the three tests admit, in the order of possibilities;
\* seq1 is the candidate and seq2 the word
RECURSIVE close_candidates(_, _, _)
close_candidates(word, possibilities, cutoff) ==
  IF possibilities = <<>> THEN <<>>
  ELSE candidate(Head(possibilities), word, cutoff, ratio(Head(possibilities), word))
       \o close_candidates(word, Tail(possibilities), cutoff)

\* [x for score, x in result]
second_components(result) == [i \in 1..Len(result) |-> result[i][2]]

get_close_matches(word, possibilities, n, cutoff) ==
  second_components(nlargest(n, close_candidates(word, possibilities, cutoff)))

(***************************************************************************)
(* KnowledgeGraphSearch                                                    *)
(***************************************************************************)
\* self.concept_keys = list(self.graph.keys())
concept_keys == graph.keys

\* the statistics with every tag counted once, whatever the number of
\* records that carry it
stats_distinct_tags ==
  [ num_concepts |-> Len(graph.keys),
    num_relations |->
      Cardinality(UNION { { get(graph.rec[k], "relations", <<>>)[i] :
                            i \in 1..Len(get(graph.rec[k], "relations", <<>>)) } :
                          k \in DOMAIN graph.rec }),
    file |-> "data/knowledge_graph.json" ]

\* stats(): len(self.graph), the sum of len(v.get("relations", [])) over the
\* records, and str(self.graph_file)
stats ==
  LET sum_to[i \in 0..Len(graph.keys)] ==
        IF i = 0 THEN 0
        ELSE sum_to[i - 1] + Len(get(graph.rec[graph.keys[i]], "relations", <<>>))
  IN  [ num_concepts |-> Len(graph.keys),
        num_relations |-> sum_to[Len(graph.keys)],
        file |-> "data/knowledge_graph.json" ]

exact_search(q) ==
  LET k == normalize_key(q)
  IN  IF k \in DOMAIN graph.rec THEN Obj("graph", k) ELSE None

\* the entries with a missing name or type read as empty
fuzzy_entries_empty_defaults(norm, close) ==
  [i \in 1..Len(close) |->
     [ key |-> close[i],
       name |-> get(graph.rec[close[i]], "name", <<>>),
       type |-> get(graph.rec[close[i]], "type", ""),
       match_score |-> similarity(norm, close[i]) ]]

\* res[k] = {...} for k in close
fuzzy_entries(norm, close) ==
  [i \in 1..Len(close) |->
     [ key |-> close[i],
       name |-> get(graph.rec[close[i]], "name", close[i]),
       type |-> get(graph.rec[close[i]], "type", "unknown"),
       match_score |-> similarity(norm, close[i]) ]]

\* fuzzy_search once norm = normalize_key(q) is known
fuzzy_search_norm(norm, limit, cutoff) ==
  fuzzy_entries(norm, get_close_matches(norm, concept_keys, limit, cutoff))

fuzzy_search(q, limit, cutoff) == fuzzy_search_norm(normalize_key(q), limit, cutoff)

\* out[k] = {...} for the keys found, in store order
relation_entries(found) ==
  [j \in 1..Len(found) |->
     [ key |-> found[j],
       name |-> get(graph.rec[found[j]], "name", found[j]),
       category |-> get(graph.rec[found[j]], "category", W_unknown) ]]

\* the search with the stored tags compared as they are written
relation_search_case_sensitive(r) ==
  LET hit(k) == InSeq(r, get(graph.rec[k], "relations", <<>>))
  IN  relation_entries(SelectSeq(graph.keys, hit))

\* relation_search once r = rel.lower() is known
relation_search_lower(r) ==
  LET rels(k) == LET given == get(graph.rec[k], "relations", <<>>)
                 IN  [i \in 1..Len(given) |-> lower(given[i])]
      hit(k) == InSeq(r, rels(k))
  IN  relation_entries(SelectSeq(graph.keys, hit))

relation_search(rel) == relation_search_lower(lower(rel))

\* res[k] = {...} for the keys found, in store order
keyword_entries(found, q) ==
  [j \in 1..Len(found) |->
     [ key |-> found[j],
       name |-> get(graph.rec[found[j]], "name", <<>>),
       snippet |-> snippet(get(graph.rec[found[j]], "description", <<>>),
                           q, SnippetWindow) ]]

\* the search that looks into the description only
keyword_search_description_only(q, ql) ==
  LET hit(k) == contains(lower(get(graph.rec[k], "description", <<>>)), ql)
  IN  keyword_entries(SelectSeq(graph.keys, hit), q)

\* keyword_search once ql = q.lower() is known
keyword_search_lower(q, ql) ==
  LET hit(k) == contains(lower(get(graph.rec[k], "name", <<>>)
                               \o get(graph.rec[k], "description", <<>>)), ql)
  IN  keyword_entries(SelectSeq(graph.keys, hit), q)

keyword_search(q) == keyword_search_lower(q, lower(q))

\* the composite with the relation search made on the normalized query
comprehensive_search_normalized(q) ==
  [ exact |-> exact_search(q),
    fuzzy |-> fuzzy_search(q, DefaultLimit, DefaultCutoff),
    related |-> relation_search(normalize_key(q)),
    keyword |-> keyword_search(q) ]

comprehensive_search(q) ==
  [ exact |-> exact_search(q),
    fuzzy |-> fuzzy_search(q, DefaultLimit, DefaultCutoff),
    related |-> relation_search(q),
    keyword |-> keyword_search(q) ]

(***************************************************************************)
(* DsaTutorEngine.  answer_markdown is held as its sequence of lines, each *)
(* a record of the line's kind and of the values it prints; the wrapping   *)
(* of the description at 90 columns changes the layout only and is left    *)
(* out.                                                                    *)
(***************************************************************************)
build_concept_explanation(concept) ==
  IF ~Truthy(concept) THEN << [tag |-> "no_information"] >>
  ELSE LET c == Deref(concept)
           name == get(c, "name", <<"U", "n", "k", "n", "o", "w", "n">>)
           ctype == get(c, "type", "N/A")
           category == get(c, "category", <<"N", "/", "A">>)
           ops == get(c, "basic_ops", <<>>)
           uses == get(c, "use_cases", <<>>)
           rels == get(c, "relations", <<>>)
           desc == strip(get(c, "description", <<>>))
       IN  << [tag |-> "title", val |-> name],
              [tag |-> "blank"],
              [tag |-> "type", val |-> ctype],
              [tag |-> "category", val |-> category] >>
           \o (IF ops # <<>> THEN << [tag |-> "core_operations", val |-> ops] >> ELSE <<>>)
           \o (IF uses # <<>> THEN << [tag |-> "use_cases", val |-> uses] >> ELSE <<>>)
           \o (IF rels # <<>> THEN << [tag |-> "relations", val |-> rels] >> ELSE <<>>)
           \o (IF desc # <<>>
               THEN << [tag |-> "blank"],
                       [tag |-> "explanation_heading"],
                       [tag |-> "explanation", val |-> desc] >>
               ELSE <<>>)

\* the sort without reverse=True: ascending, stable
RECURSIVE sorted_by_score_asc(_)
sorted_by_score_asc(entries) ==
  IF entries = <<>> THEN <<>>
  ELSE LET low == CHOOSE i \in 1..Len(entries) :
                    /\ \A j \in 1..Len(entries) :
                         score_ge(entries[j].match_score, entries[i].match_score)
                    /\ \A j \in 1..(i - 1) :
                         score_gt(entries[j].match_score, entries[i].match_score)
           rest == [j \in 1..(Len(entries) - 1) |->
                      IF j < low THEN entries[j] ELSE entries[j + 1]]
       IN  <<entries[low]>> \o sorted_by_score_asc(rest)

\* sorted(entries, key=match_score, reverse=True): stable, so entries of
\* equal score keep their order
RECURSIVE sorted_by_score_desc(_)
sorted_by_score_desc(entries) ==
  IF entries = <<>> THEN <<>>
  ELSE LET top == CHOOSE i \in 1..Len(entries) :
                    /\ \A j \in 1..Len(entries) :
                         score_ge(entries[i].match_score, entries[j].match_score)
                    /\ \A j \in 1..(i - 1) :
                         score_gt(entries[i].match_score, entries[j].match_score)
           rest == [j \in 1..(Len(entries) - 1) |->
                      IF j < top THEN entries[j] ELSE entries[j + 1]]
       IN  <<entries[top]>> \o sorted_by_score_desc(rest)

\* self.kg.get(key)
kg_get(k) == IF k \in DOMAIN kg.rec THEN Obj("kg", k) ELSE None

\* the selection with the fuzzy result tried before the exact one
pick_best_fuzzy_first(results) ==
  IF results.fuzzy # <<>>
  THEN kg_get(sorted_by_score_desc(results.fuzzy)[1].key)
  ELSE IF Truthy(results.exact) THEN results.exact
  ELSE IF results.keyword # <<>>
       THEN kg_get(results.keyword[1].key)
  ELSE None

\* the selection with the last keyword hit taken instead of the first
pick_best_keyword_last(results) ==
  IF Truthy(results.exact) THEN results.exact
  ELSE IF results.fuzzy # <<>>
       THEN kg_get(sorted_by_score_desc(results.fuzzy)[1].key)
  ELSE IF results.keyword # <<>>
       THEN kg_get(results.keyword[Len(results.keyword)].key)
  ELSE None

\* the selection with a relation hit used as a last resort
pick_best_with_related(results) ==
  IF Truthy(results.exact) THEN results.exact
  ELSE IF results.fuzzy # <<>>
       THEN kg_get(sorted_by_score_desc(results.fuzzy)[1].key)
  ELSE IF results.keyword # <<>>
       THEN kg_get(results.keyword[1].key)
  ELSE IF results.related # <<>>
       THEN kg_get(results.related[1].key)
  ELSE None

pick_best_concept_from_results(results) ==
  IF Truthy(results.exact) THEN results.exact
  ELSE IF results.fuzzy # <<>>
       THEN kg_get(sorted_by_score_desc(results.fuzzy)[1].key)
  ELSE IF results.keyword # <<>>
       THEN kg_get(results.keyword[1].key)
  ELSE None

\* the tip for c = (category or "").lower()
study_tip_lower(c) ==
  IF c = T_data_structure THEN "tip_data_structure"
  ELSE IF c = W_algorithm THEN "tip_algorithm"
  ELSE "None"

study_tip_for_category(category) == study_tip_lower(lower(category))

\* for key, data in self.kg.items(): if data is concept: matched_key = key
matched_key_of(concept) ==
  LET hits == {i \in 1..Len(kg.keys) : Obj("kg", kg.keys[i]) = concept}
  IN  IF hits = {} THEN None
      ELSE kg.keys[CHOOSE i \in hits : \A j \in hits : i <= j]

\* the result dict that holds no record
no_record(query, md) ==
  [ query |-> query,
    matched_key |-> None,
    match_source |-> "none",
    concept |-> None,
    answer_markdown |-> md ]

\* answer += "\n\n" + tip, when there is a tip
with_tip(md, tip) ==
  md \o (IF tip # "None"
         THEN << [tag |-> "blank"], [tag |-> "tip", val |-> tip] >>
         ELSE <<>>)

\* the source reported for the selection
source_of(results, concept, matched_key) ==
  IF results.exact = concept THEN "exact"
  ELSE IF matched_key # None /\ matched_key # <<>>
          /\ InSeq(matched_key, KeysOf(results.fuzzy))
       THEN "fuzzy"
  ELSE "keyword"

\* explain_concept from the matched-key loop on
explain_matched(query, results, concept, matched_key) ==
  [ out |-> [ query |-> query,
              matched_key |-> matched_key,
              match_source |-> source_of(results, concept, matched_key),
              concept |-> concept,
              answer_markdown |->
                with_tip(build_concept_explanation(concept),
                         study_tip_for_category(get(Deref(concept), "category", <<>>))) ],
    calls |-> <<query>> ]

\* explain_concept once the selection is made
explain_selected(query, results, concept) ==
  IF concept = None
  THEN [ out |-> no_record(query, << [tag |-> "no_clear_match", val |-> query] >>),
         calls |-> <<query>> ]
  ELSE explain_matched(query, results, concept, matched_key_of(concept))

\* explain_concept once the search is made
explain_results(query, results) ==
  explain_selected(query, results, pick_best_concept_from_results(results))

\* explain_concept once query = concept_name.strip() is known
explain_query(concept_name, query) ==
  IF query = <<>>
  THEN [ out |-> no_record(concept_name, << [tag |-> "please_concept_name"] >>),
         calls |-> <<>> ]
  ELSE explain_results(query, comprehensive_search(query))

\* explain_concept: the returned dict, and the comprehensive_search calls
explain_concept(concept_name) == explain_query(concept_name, strip(concept_name))

\* the leading phrases of answer(), in the order they are tried
Prefixes == << W_explain \o SP, W_what \o SP \o W_is \o SP, W_define \o SP >>

\* the prefixes a case-sensitive test would recognise
matching_prefixes_case_sensitive(query_clean) ==
  {i \in 1..Len(Prefixes) : startswith(query_clean, Prefixes[i])}

\* lowered = query_clean.lower(); the prefixes with lowered.startswith(prefix)
matching_prefixes(query_clean) ==
  LET lowered == lower(query_clean)
  IN  {i \in 1..Len(Prefixes) : startswith(lowered, Prefixes[i])}

\* the first prefix of the list among those that match
first_prefix(matching) ==
  Prefixes[CHOOSE i \in matching : \A j \in matching : i <= j]

\* answer's last step: the result of explain_concept(concept["name"])
answer_again(query_clean, again) ==
  [ out |-> again.out, calls |-> <<query_clean>> \o again.calls ]

\* answer's generic case once the selection is made
answer_selected(query_clean, concept) ==
  IF concept = None
  THEN [ out |-> no_record(query_clean, << [tag |-> "could_not_map"] >>),
         calls |-> <<query_clean>> ]
  ELSE answer_again(query_clean,
                    explain_concept(get(Deref(concept), "name", <<>>)))

\* answer once the matching prefixes are known
answer_prefixed(query_clean, matching) ==
  IF matching # {}
  THEN explain_concept(strip(SubSeq(query_clean, Len(first_prefix(matching)) + 1,
                                    Len(query_clean))))
  ELSE answer_selected(query_clean,
         pick_best_concept_from_results(comprehensive_search(query_clean)))

\* answer once query_clean = user_query.strip() is known
answer_clean(user_query, query_clean) ==
  IF query_clean = <<>>
  THEN [ out |-> no_record(user_query, << [tag |-> "please_type_question"] >>),
         calls |-> <<>> ]
  ELSE answer_prefixed(query_clean, matching_prefixes(query_clean))

\* answer: the returned dict, and the comprehensive_search calls
answer(user_query) == answer_clean(user_query, strip(user_query))

(***************************************************************************)
(* The state machine: one request at a time, handled from start to end;    *)
(* the front end then consumes the result and returns to its prompt.       *)
(***************************************************************************)
\* nothing returned: no exact hit, empty mappings, no answer
NoResult ==
  [ exact |-> None,
    fuzzy |-> <<>>,
    related |-> <<>>,
    keyword |-> <<>>,
    out |-> [ query |-> <<>>,
              matched_key |-> None,
              match_source |-> "none",
              concept |-> None,
              answer_markdown |-> <<>> ],
    stats |-> [num_concepts |-> 0, num_relations |-> 0, file |-> ""],
    error |-> "none" ]

\* the engines are constructed on a complete file; the command loop and
\* the scraper have not run
Init ==
  /\ \E s \in Stores : kg = s /\ graph = s /\ file = s
  /\ pc = "idle"
  /\ op = "none"
  /\ arg = [q |-> <<>>, limit |-> DefaultLimit, cutoff |-> DefaultCutoff]
  /\ ret = NoResult
  /\ searched = <<>>
  /\ cli = [at |-> "start", query |-> <<>>, calls |-> <<>>, printed |-> <<>>,
            caught |-> "none"]
  /\ fetch = [at |-> "idle", name |-> <<>>, llm_available |-> FALSE, tried |-> <<>>,
              result |-> [source |-> "none", len |-> 0]]

\* the return of a call that notes its query in the records it has read
Returns_noting(name, q, limit, cutoff, value, calls) ==
  /\ pc = "idle"
  /\ pc' = "done"
  /\ op' = name
  /\ arg' = [q |-> q, limit |-> limit, cutoff |-> cutoff]
  /\ ret' = value
  /\ searched' = calls
  /\ graph' = [graph EXCEPT !.rec = [k \in DOMAIN graph.rec |->
                                       [f \in DOMAIN graph.rec[k] \cup {"last_query"} |->
                                          IF f = "last_query" THEN q ELSE graph.rec[k][f]]]]
  /\ UNCHANGED <<kg, file, cli, fetch>>

Returns(name, q, limit, cutoff, value, calls) ==
  /\ pc = "idle"
  /\ pc' = "done"
  /\ op' = name
  /\ arg' = [q |-> q, limit |-> limit, cutoff |-> cutoff]
  /\ ret' = value
  /\ searched' = calls
  /\ UNCHANGED <<kg, graph, file, cli, fetch>>

ExactSearch ==
  \E q \in Queries :
    Returns("exact_search", q, DefaultLimit, DefaultCutoff,
            [NoResult EXCEPT !.exact = exact_search(q)], <<>>)

FuzzySearch ==
  \E q \in Queries, limit \in Limits, cutoff \in Cutoffs :
    Returns("fuzzy_search", q, limit, cutoff,
            [NoResult EXCEPT !.fuzzy = fuzzy_search(q, limit, cutoff)], <<>>)

RelationSearch ==
  \E q \in Queries :
    Returns("relation_search", q, DefaultLimit, DefaultCutoff,
            [NoResult EXCEPT !.related = relation_search(q)], <<>>)

KeywordSearch ==
  \E q \in Queries :
    Returns("keyword_search", q, DefaultLimit, DefaultCutoff,
            [NoResult EXCEPT !.keyword = keyword_search(q)], <<>>)

\* the composite result c, held as the return value
Composed(c) ==
  [NoResult EXCEPT !.exact = c.exact, !.fuzzy = c.fuzzy,
                   !.related = c.related, !.keyword = c.keyword]

ComprehensiveSearch ==
  \E q \in Queries :
    Returns("comprehensive_search", q, DefaultLimit, DefaultCutoff,
            Composed(comprehensive_search(q)), <<q>>)

\* a tutor method returns r.out after the searches r.calls
Replies(name, q, r) ==
  Returns(name, q, DefaultLimit, DefaultCutoff, [NoResult EXCEPT !.out = r.out], r.calls)

ExplainConcept == \E q \in Queries : Replies("explain_concept", q, explain_concept(q))

\* engine.stats()
Stats ==
  Returns("stats", <<>>, DefaultLimit, DefaultCutoff, [NoResult EXCEPT !.stats = stats], <<>>)

Answer == \E q \in Queries : Replies("answer", q, answer(q))

\* the result is shown and dropped; the next request can come
Consume ==
  /\ pc = "done"
  /\ pc' = "idle"
  /\ op' = "none"
  /\ arg' = [q |-> <<>>, limit |-> DefaultLimit, cutoff |-> DefaultCutoff]
  /\ ret' = NoResult
  /\ searched' = <<>>
  /\ UNCHANGED <<kg, graph, file, cli, fetch>>

Next ==
  \/ ExactSearch
  \/ FuzzySearch
  \/ RelationSearch
  \/ KeywordSearch
  \/ ComprehensiveSearch
  \/ ExplainConcept
  \/ Answer
  \/ Stats
  \/ Consume

Spec == Init /\ [][Next]_vars

(***************************************************************************)
(* Start-up.  A process starts with nothing loaded and constructs either   *)
(* the tutor engine (kg_app) or the search engine alone (main_cli), while  *)
(* the catalogue builder, another process, may rewrite the file.           *)
(***************************************************************************)
\* no file at the path; no store loaded in the attribute
Missing == [state |-> "missing"]

\* build_knowledge_graph: open(out_path, "w") empties the file, and the end
\* of json.dump leaves the catalogue in it
build_knowledge_graph ==
  /\ \/ /\ file # [state |-> "half_written"]
        /\ file' = [state |-> "half_written"]
     \/ /\ file = [state |-> "half_written"]
        /\ file' = Catalogue
  /\ UNCHANGED <<kg, graph, pc, op, arg, ret, searched, cli, fetch>>

\* the constructor that starts from an empty graph when there is no file
KnowledgeGraphSearch_init_lenient ==
  IF file = [state |-> "half_written"]
  THEN pc' = "failed" /\ graph' = graph /\ ret' = [ret EXCEPT !.error = "JSONDecodeError"]
  ELSE /\ graph' = IF file = Missing THEN [keys |-> <<>>, rec |-> <<>>] ELSE file
       /\ pc' = "idle"
       /\ ret' = ret

\* KnowledgeGraphSearch.__init__: what it does to graph, and how it ends
KnowledgeGraphSearch_init ==
  IF file = Missing
  THEN pc' = "failed" /\ graph' = graph /\ ret' = [ret EXCEPT !.error = "FileNotFoundError"]
  ELSE IF file = [state |-> "half_written"]
  THEN pc' = "failed" /\ graph' = graph /\ ret' = [ret EXCEPT !.error = "JSONDecodeError"]
  ELSE graph' = file /\ pc' = "idle" /\ ret' = ret

\* DsaTutorEngine.__init__: its own load of the file into kg, then the
\* construction of its search engine
DsaTutorEngine_init ==
  \/ /\ pc = "new"
     /\ cli.at = "start"
     /\ IF file = Missing
        THEN pc' = "failed" /\ kg' = kg /\ ret' = [ret EXCEPT !.error = "FileNotFoundError"]
        ELSE IF file = [state |-> "half_written"]
        THEN pc' = "failed" /\ kg' = kg /\ ret' = [ret EXCEPT !.error = "JSONDecodeError"]
        ELSE kg' = file /\ pc' = "kg_loaded" /\ ret' = ret
     /\ UNCHANGED <<graph, op, arg, searched, file, cli, fetch>>
  \/ /\ pc = "kg_loaded"
     /\ KnowledgeGraphSearch_init
     /\ UNCHANGED <<kg, op, arg, searched, file, cli, fetch>>

\* print_concept(concept), for a concept that is not empty
print_concept(c) ==
  LET ops == get(c, "basic_ops", <<>>)
      uses == get(c, "use_cases", <<>>)
      rels == get(c, "relations", <<>>)
      desc == get(c, "description", <<>>)
  IN  << [tag |-> "concept", val |-> Upper(get(c, "name", <<"U", "n", "k", "n", "o", "w", "n">>))],
         [tag |-> "id", val |-> get(c, "id", "N/A")],
         [tag |-> "type", val |-> get(c, "type", "N/A")],
         [tag |-> "category", val |-> get(c, "category", <<"N", "/", "A">>)] >>
      \o (IF ops # <<>> THEN << [tag |-> "basic_operations", val |-> ops] >> ELSE <<>>)
      \o (IF uses # <<>> THEN << [tag |-> "use_cases", val |-> uses] >> ELSE <<>>)
      \o (IF rels # <<>> THEN << [tag |-> "relations", val |-> rels] >> ELSE <<>>)
      \o (IF desc # <<>>
          THEN << [tag |-> "description",
                   val |-> slice(desc, 0, 400)
                           \o (IF Len(desc) > 400 THEN Ellipsis ELSE <<>>)] >>
          ELSE <<>>)

\* one pass of the loop of main() on the typed line: the state of the
\* command loop at the end of the pass, "passed" when the loop goes on
main_loop(typed) ==
  LET query == strip(typed)
      command == lower(query)
      pass(at, calls, printed, caught) ==
        [at |-> at, query |-> query, calls |-> calls, printed |-> printed, caught |-> caught]
      reads == <<"num_concepts", "num_relations", "graph_file">>
      absent == {i \in 1..Len(reads) : reads[i] \notin DOMAIN stats}
      printable == IF absent = {} THEN Len(reads)
                   ELSE (CHOOSE i \in absent : \A j \in absent : i <= j) - 1
      results == comprehensive_search(query)
      listed(kind, entries) ==
        IF entries = <<>> THEN <<>>
        ELSE << [tag |-> kind, val |-> [i \in 1..Len(entries) |-> entries[i].name]] >>
  IN  IF query = <<>> THEN pass("passed", <<>>, <<>>, "none")
      ELSE IF command = <<"q", "u", "i", "t">>
      THEN pass("exited", <<>>, << [tag |-> "goodbye"] >>, "none")
      ELSE IF command = <<"h", "e", "l", "p">>
      THEN pass("passed", <<>>, << [tag |-> "help"] >>, "none")
      ELSE IF command = <<"s", "t", "a", "t", "s">>
      THEN pass("passed", <<"stats">>,
                << [tag |-> "graph_statistics"] >>
                \o [i \in 1..printable |-> [tag |-> reads[i], val |-> stats[reads[i]]]]
                \o (IF absent = {} THEN <<>>
                    ELSE << [tag |-> "error", val |-> reads[printable + 1]] >>),
                IF absent = {} THEN "none" ELSE "KeyError")
      ELSE pass("passed", <<"comprehensive_search">>,
                (IF Truthy(results.exact) THEN print_concept(Deref(results.exact))
                 ELSE << [tag |-> "no_exact_match"] >>)
                \o listed("possible_matches", results.fuzzy)
                \o listed("related_concepts", results.related)
                \o listed("keyword_matches", results.keyword),
                "none")

\* main(): the construction of the search engine, then the command loop
Main ==
  \/ /\ pc = "new"
     /\ cli.at = "start"
     /\ KnowledgeGraphSearch_init
     /\ cli' = [cli EXCEPT
                  !.at = IF file = Missing THEN "exited"
                         ELSE IF file = [state |-> "half_written"] THEN "crashed"
                         ELSE "prompt",
                  !.printed = IF file = Missing THEN << [tag |-> "graph_not_found"] >>
                              ELSE IF file = [state |-> "half_written"] THEN <<>>
                              ELSE << [tag |-> "type_help"] >>]
     /\ UNCHANGED <<kg, op, arg, searched, file, fetch>>
  \/ /\ cli.at = "prompt"
     /\ \E typed \in Queries \cup { <<"s", "t", "a", "t", "s">>, <<"S", "T", "A", "T", "S">>,
                                    <<" ", "S", "t", "a", "t", "s">>, <<"H", "e", "l", "p">>,
                                    <<"q", "u", "i", "t">> } :
          cli' = main_loop(typed)
     /\ UNCHANGED <<kg, graph, pc, op, arg, ret, searched, file, fetch>>
  \/ /\ cli.at = "passed"
     /\ cli' = [at |-> "prompt", query |-> <<>>, calls |-> <<>>, printed |-> <<>>,
                caught |-> "none"]
     /\ UNCHANGED <<kg, graph, pc, op, arg, ret, searched, file, fetch>>

InitStartup ==
  /\ file \in {Missing} \cup Stores
  /\ kg = Missing
  /\ graph = Missing
  /\ pc = "new"
  /\ op = "none"
  /\ arg = [q |-> <<>>, limit |-> DefaultLimit, cutoff |-> DefaultCutoff]
  /\ ret = NoResult
  /\ searched = <<>>
  /\ cli = [at |-> "start", query |-> <<>>, calls |-> <<>>, printed |-> <<>>,
            caught |-> "none"]
  /\ fetch = [at |-> "idle", name |-> <<>>, llm_available |-> FALSE, tried |-> <<>>,
              result |-> [source |-> "none", len |-> 0]]

NextStartup ==
  \/ DsaTutorEngine_init
  \/ Main
  \/ build_knowledge_graph
  \/ (kg # Missing /\ ExplainConcept)
  \/ Consume

SpecStartup == InitStartup /\ [][NextStartup]_vars

(***************************************************************************)
(* scraper.fetch_description.  A text is held by its length; fetch.tried   *)
(* is the log of the sources asked so far, each with what it gave.         *)
(***************************************************************************)
\* the function with one try block around the whole loop: an exception on
\* a page ends the web attempts
fetch_description_one_try ==
  \/ \* the call, by build_knowledge_graph with the name of a concept; the
     \* import of ollama has succeeded or not
     /\ fetch.at = "idle"
     /\ \E k \in DOMAIN Catalogue.rec, available \in BOOLEAN :
          fetch' = [fetch EXCEPT !.at = "web", !.name = Catalogue.rec[k].name,
                                 !.llm_available = available]
     /\ UNCHANGED <<kg, graph, pc, op, arg, ret, searched, file, cli>>
  \/ \* the next candidate url: requests.get raises, answers with another
     \* status, or answers 200 with a page whose longest paragraph has
     \* page.len characters; _extract_paragraph keeps one of 80 or more,
     \* cut to max_length = 400
     /\ fetch.at = "web"
     /\ \E page \in { [got |-> "raises", len |-> 0], [got |-> "status_404", len |-> 0],
                      [got |-> "status_200", len |-> 79], [got |-> "status_200", len |-> 80],
                      [got |-> "status_200", len |-> 500] } :
          LET paragraph == IF page.len < 80 THEN 0
                           ELSE IF page.len > 400 THEN 400 ELSE page.len
              attempt == [source |-> "web", url |-> Len(fetch.tried) + 1,
                          got |-> page.got, len |-> paragraph]
          IN  fetch' = IF paragraph > 0
                       THEN [fetch EXCEPT !.at = "returned",
                                          !.tried = Append(@, attempt),
                                          !.result = [source |-> "web", len |-> paragraph]]
                       ELSE [fetch EXCEPT !.at = IF Len(fetch.tried) + 1 < 6 /\ page.got # "raises"
                                                 THEN "web" ELSE "llm",
                                          !.tried = Append(@, attempt)]
     /\ UNCHANGED <<kg, graph, pc, op, arg, ret, searched, file, cli>>
  \/ \* llm_generate_description: None when ollama is not there, raises or
     \* answers nothing but spaces, else the answer cut to 400 characters
     \* and "..."; without it the generic sentence about the concept
     /\ fetch.at = "llm"
     /\ \E reply \in IF fetch.llm_available
                     THEN { [got |-> "raises", len |-> 0], [got |-> "response", len |-> 0],
                            [got |-> "response", len |-> 120],
                            [got |-> "response", len |-> 500] }
                     ELSE { [got |-> "unavailable", len |-> 0] } :
          LET llm_text == IF reply.len > 400 THEN 400 + 3 ELSE reply.len
              attempt == [source |-> "llm", url |-> 0, got |-> reply.got, len |-> llm_text]
          IN  fetch' = [fetch EXCEPT
                          !.at = "returned",
                          !.tried = Append(@, attempt),
                          !.result = IF llm_text > 0
                                     THEN [source |-> "llm", len |-> llm_text]
                                     ELSE [source |-> "fallback",
                                           len |-> 42 + Len(fetch.name)]]
     /\ UNCHANGED <<kg, graph, pc, op, arg, ret, searched, file, cli>>
  \/ \* the caller stores the description; the next call starts afresh
     /\ fetch.at = "returned"
     /\ fetch' = [at |-> "idle", name |-> <<>>, llm_available |-> FALSE, tried |-> <<>>,
                  result |-> [source |-> "none", len |-> 0]]
     /\ UNCHANGED <<kg, graph, pc, op, arg, ret, searched, file, cli>>

\* fetch_description(concept_name), one source at a time
fetch_description ==
  \/ \* the call, by build_knowledge_graph with the name of a concept; the
     \* import of ollama has succeeded or not
     /\ fetch.at = "idle"
     /\ \E k \in DOMAIN Catalogue.rec, available \in BOOLEAN :
          fetch' = [fetch EXCEPT !.at = "web", !.name = Catalogue.rec[k].name,
                                 !.llm_available = available]
     /\ UNCHANGED <<kg, graph, pc, op, arg, ret, searched, file, cli>>
  \/ \* the next candidate url: requests.get raises, answers with another
     \* status, or answers 200 with a page whose longest paragraph has
     \* page.len characters; _extract_paragraph keeps one of 80 or more,
     \* cut to max_length = 400
     /\ fetch.at = "web"
     /\ \E page \in { [got |-> "raises", len |-> 0], [got |-> "status_404", len |-> 0],
                      [got |-> "status_200", len |-> 79], [got |-> "status_200", len |-> 80],
                      [got |-> "status_200", len |-> 500] } :
          LET paragraph == IF page.len < 80 THEN 0
                           ELSE IF page.len > 400 THEN 400 ELSE page.len
              attempt == [source |-> "web", url |-> Len(fetch.tried) + 1,
                          got |-> page.got, len |-> paragraph]
          IN  fetch' = IF paragraph > 0
                       THEN [fetch EXCEPT !.at = "returned",
                                          !.tried = Append(@, attempt),
                                          !.result = [source |-> "web", len |-> paragraph]]
                       ELSE [fetch EXCEPT !.at = IF Len(fetch.tried) + 1 < 6 THEN "web" ELSE "llm",
                                          !.tried = Append(@, attempt)]
     /\ UNCHANGED <<kg, graph, pc, op, arg, ret, searched, file, cli>>
  \/ \* llm_generate_description: None when ollama is not there, raises or
     \* answers nothing but spaces, else the answer cut to 400 characters
     \* and "..."; without it the generic sentence about the concept
     /\ fetch.at = "llm"
     /\ \E reply \in IF fetch.llm_available
                     THEN { [got |-> "raises", len |-> 0], [got |-> "response", len |-> 0],
                            [got |-> "response", len |-> 120],
                            [got |-> "response", len |-> 500] }
                     ELSE { [got |-> "unavailable", len |-> 0] } :
          LET llm_text == IF reply.len > 400 THEN 400 + 3 ELSE reply.len
              attempt == [source |-> "llm", url |-> 0, got |-> reply.got, len |-> llm_text]
          IN  fetch' = [fetch EXCEPT
                          !.at = "returned",
                          !.tried = Append(@, attempt),
                          !.result = IF llm_text > 0
                                     THEN [source |-> "llm", len |-> llm_text]
                                     ELSE [source |-> "fallback",
                                           len |-> 42 + Len(fetch.name)]]
     /\ UNCHANGED <<kg, graph, pc, op, arg, ret, searched, file, cli>>
  \/ \* the caller stores the description; the next call starts afresh
     /\ fetch.at = "returned"
     /\ fetch' = [at |-> "idle", name |-> <<>>, llm_available |-> FALSE, tried |-> <<>>,
                  result |-> [source |-> "none", len |-> 0]]
     /\ UNCHANGED <<kg, graph, pc, op, arg, ret, searched, file, cli>>

\* the function runs on: each request and each call of the model ends
SpecFetch == Init /\ [][fetch_description]_vars /\ WF_vars(fetch_description)

(***************************************************************************)
(* Vocabulary of the properties.                                           *)
(***************************************************************************)
\* a request has been handled and its result is held
Handled(name) == pc = "done" /\ op = name

\* the tutor has answered: explain_concept or answer has returned
Answered == pc = "done" /\ op \in {"explain_concept", "answer"}

\* explain_concept has searched its query, selected and returned
Explained == Handled("explain_concept") /\ searched # <<>>

\* the composite result the returned selection was made from: that of the
\* last comprehensive_search of the request
Composite == comprehensive_search(searched[Len(searched)])

\* the store key of a selected record, whichever load holds the object
RecordKey(ref) == IF ref = None THEN None ELSE ref[2]

\* the three leading phrases
Phrases == { W_explain \o SP, W_what \o SP \o W_is \o SP, W_define \o SP }

\* text t starts with phrase p, in any letter case
StartsWithPhrase(t, p) ==
  Len(t) >= Len(p) /\ \A i \in 1..Len(p) : LowerChar(t[i]) = p[i]

HasPhrase(t) == \E p \in Phrases : StartsWithPhrase(t, p)

\* text t without its first n characters
Drop(t, n) == SubSeq(t, n + 1, Len(t))

\* the two messages that ask for a query, and the two not-found messages
AsksForQuery(md) == md[1].tag \in {"please_type_question", "please_concept_name"}
SaysNotFound(md) == md[1].tag \in {"no_clear_match", "could_not_map"}

(***************************************************************************)
(* C1 - C10                                                                *)
(***************************************************************************)
\* C1: for every non-empty query that carries no leading phrase, answer(q)
\* returns the same selected record, the same matched key and the same
\* match source as explain_concept(q).
C1_AnswerAgreesWithExplain ==
  (Handled("answer") /\ strip(arg.q) # <<>> /\ ~HasPhrase(strip(arg.q)))
    => LET direct == explain_concept(arg.q).out
       IN  /\ RecordKey(ret.out.concept) = RecordKey(direct.concept)
           /\ ret.out.matched_key = direct.matched_key
           /\ ret.out.match_source = direct.match_source

\* C2: when answer() searches a query that has no exact hit and a non-empty
\* fuzzy result whose best entry is key k, the answer reports match source
\* fuzzy and the selected record is the one stored at k.
C2_FuzzyHitReported ==
  (Handled("answer") /\ searched # <<>>)
    => LET c == comprehensive_search(searched[1])
       IN  (c.exact = None /\ c.fuzzy # <<>>)
             => \E i \in 1..Len(c.fuzzy) :
                  /\ \A j \in 1..Len(c.fuzzy) :
                       score_ge(c.fuzzy[i].match_score, c.fuzzy[j].match_score)
                  /\ ret.out.match_source = "fuzzy"
                  /\ RecordKey(ret.out.concept) = c.fuzzy[i].key

\* C3: when the composite result explain_concept selects from holds an exact
\* hit with at least a name and a non-empty fuzzy result, the selection is
\* the exact-hit record and the source is exact, whatever the other results
\* contain.
C3_ExactHasPriority ==
  Explained
    => LET c == Composite
       IN  (c.exact # None /\ "name" \in DOMAIN Deref(c.exact) /\ c.fuzzy # <<>>)
             => ret.out.concept = c.exact /\ ret.out.match_source = "exact"

\* an exact hit was selected although the fuzzy result held other keys too
C3_Witness ==
  /\ Explained
  /\ LET c == Composite
     IN  /\ c.exact # None /\ "name" \in DOMAIN Deref(c.exact)
         /\ \E i \in 1..Len(c.fuzzy) : c.fuzzy[i].key # RecordKey(c.exact)
         /\ ret.out.concept = c.exact
  /\ ret.out.match_source = "exact"

\* C4: with no exact hit and a non-empty fuzzy result, explain_concept's
\* selection is the fuzzy entry of highest match_score, the first such entry
\* of the mapping among equals, and the source is fuzzy.
C4_BestFuzzySelected ==
  Explained
    => LET c == Composite
           f == c.fuzzy
       IN  (c.exact = None /\ f # <<>>)
             => \E i \in 1..Len(f) :
                  /\ \A j \in 1..Len(f) :
                       score_ge(f[i].match_score, f[j].match_score)
                  /\ \A j \in 1..(i - 1) :
                       score_gt(f[i].match_score, f[j].match_score)
                  /\ ret.out.concept = Obj("kg", f[i].key)
                  /\ ret.out.matched_key = f[i].key
                  /\ ret.out.match_source = "fuzzy"

\* a fuzzy selection among two entries of equal highest score
C4_Witness ==
  /\ Explained
  /\ LET c == Composite
         f == c.fuzzy
     IN  /\ c.exact = None
         /\ Len(f) >= 2
         /\ score_eq(f[1].match_score, f[2].match_score)
         /\ ret.out.matched_key = f[1].key
  /\ ret.out.match_source = "fuzzy"

\* C5: with no exact hit, an empty fuzzy result and a non-empty keyword
\* result, explain_concept's selection is the first keyword entry, which is
\* the first in store order, and the source is keyword.
C5_FirstKeywordSelected ==
  Explained
    => LET c == Composite
           kw == c.keyword
           pos(k) == CHOOSE i \in 1..Len(graph.keys) : graph.keys[i] = k
       IN  (c.exact = None /\ c.fuzzy = <<>> /\ kw # <<>>)
             => /\ \A j \in 2..Len(kw) : pos(kw[1].key) < pos(kw[j].key)
                /\ ret.out.concept = Obj("kg", kw[1].key)
                /\ ret.out.matched_key = kw[1].key
                /\ ret.out.match_source = "keyword"

\* a keyword selection among several keyword hits
C5_Witness ==
  /\ Explained
  /\ LET c == Composite
     IN  /\ c.exact = None /\ c.fuzzy = <<>>
         /\ Len(c.keyword) >= 2
         /\ ret.out.matched_key = c.keyword[1].key
  /\ ret.out.match_source = "keyword"

\* C6: whenever the exact result is absent and the fuzzy and keyword
\* results are empty, the answer has no record, no key, source none and a
\* not-found message, even when the related result is non-empty.
C6_RelationNeverSelects ==
  Answered
    => \A i \in 1..Len(searched) :
         LET c == comprehensive_search(searched[i])
         IN  (c.exact = None /\ c.fuzzy = <<>> /\ c.keyword = <<>>)
               => /\ ret.out.concept = None
                  /\ ret.out.matched_key = None
                  /\ ret.out.match_source = "none"
                  /\ SaysNotFound(ret.out.answer_markdown)

\* answer() found nothing for a query that the relation search does match
C6_Witness ==
  /\ Handled("answer") /\ searched # <<>>
  /\ LET c == Composite
     IN  /\ c.exact = None /\ c.fuzzy = <<>> /\ c.keyword = <<>>
         /\ c.related # <<>>
  /\ ret.out.match_source = "none"

\* C7: when the trimmed query starts, in any letter case, with one of the
\* three phrases, answer() removes that one phrase and explains the trimmed
\* remainder as a concept name; otherwise the full trimmed query is what is
\* searched.
C7_LeadingPhraseStripped ==
  Handled("answer")
    => LET t == strip(arg.q)
       IN  /\ \A p \in Phrases :
                StartsWithPhrase(t, p)
                  => LET rest == strip(Drop(t, Len(p)))
                     IN  /\ ret.out = explain_concept(rest).out
                         /\ searched = <<rest>>
           /\ (t # <<>> /\ ~HasPhrase(t)) => (searched # <<>> /\ searched[1] = t)

\* a phrase written with a capital was stripped and the remainder found
C7_Witness ==
  /\ Handled("answer")
  /\ HasPhrase(strip(arg.q))
  /\ arg.q[1] # LowerChar(arg.q[1])
  /\ ret.out.match_source = "exact"

\* C8: when the input text is empty after trimming and phrase stripping, the
\* answer is the message that asks for a query, with source none and no
\* record, and not the not-found message.
C8_EmptyInputAsksForQuery ==
  (Handled("answer")
   /\ \/ strip(arg.q) = <<>>
      \/ \E p \in Phrases :
           /\ StartsWithPhrase(lstrip(arg.q), p)
           /\ strip(Drop(lstrip(arg.q), Len(p))) = <<>>)
    => /\ AsksForQuery(ret.out.answer_markdown)
       /\ ~SaysNotFound(ret.out.answer_markdown)
       /\ ret.out.match_source = "none"
       /\ ret.out.concept = None

\* text t is key k written with spaces, hyphens, slashes or underscores in
\* place of each underscore and with letters of either case
RECURSIVE WrittenAs(_, _)
WrittenAs(t, k) ==
  IF k = <<>> THEN t = <<>>
  ELSE IF t = <<>> THEN FALSE
  ELSE IF Head(k) = "_"
  THEN /\ Head(t) \in {" ", "-", "/", "_"}
       /\ \/ WrittenAs(Tail(t), Tail(k))
          \/ WrittenAs(Tail(t), k)
  ELSE /\ Head(k) \notin {" ", "-", "/"}
       /\ LowerChar(Head(t)) = Head(k)
       /\ WrittenAs(Tail(t), Tail(k))

\* key k is in normal form: no two underscores in a row
Normal(k) == \A i \in 1..(Len(k) - 1) : ~(k[i] = "_" /\ k[i + 1] = "_")

NormalizesTo(q, k) == Normal(k) /\ WrittenAs(strip(q), k)

\* C9: for every store key k and every query that normalizes to k, exact
\* search returns the record stored at k; for a query that normalizes to no
\* store key it returns absence.
C9_ExactSearchByNormalizedKey ==
  Handled("exact_search")
    => /\ \A k \in DOMAIN graph.rec :
            NormalizesTo(arg.q, k) => ret.exact = Obj("graph", k)
       /\ (\A k \in DOMAIN graph.rec : ~NormalizesTo(arg.q, k)) => ret.exact = None

\* a key found from a text written with a capital and a slash
C9_Witness ==
  /\ Handled("exact_search")
  /\ ret.exact # None
  /\ InSeq("/", arg.q)
  /\ \E i \in 1..Len(arg.q) : arg.q[i] # LowerChar(arg.q[i])

\* C10: every entry returned by fuzzy search carries a match_score that is
\* at least the cutoff in force.
C10_ScoresReachCutoff ==
  Handled("fuzzy_search")
    => \A i \in 1..Len(ret.fuzzy) :
         score_ge(ret.fuzzy[i].match_score, arg.cutoff)


(***************************************************************************)
(* C11 - C20                                                               *)
(***************************************************************************)
\* C11: the entries of a fuzzy search result appear in non-increasing order
\* of their reported match_score.
C11_ScoresNonIncreasing ==
  Handled("fuzzy_search")
    => \A i \in 1..(Len(ret.fuzzy) - 1) :
         score_ge(ret.fuzzy[i].match_score, ret.fuzzy[i + 1].match_score)

\* the similarity of store key k to the normalized query of the request
SimilarityToQuery(k) == similarity(normalize_key(arg.q), k)

\* store key k is in the fuzzy result held
Returned(k) == InSeq(k, KeysOf(ret.fuzzy))

\* C12: fuzzy search returns at most limit entries, and no store key left
\* out of the result has a similarity to the normalized query that is at or
\* above the cutoff and strictly higher than that of a returned key.
C12_BestWithinLimit ==
  Handled("fuzzy_search")
    => /\ Len(ret.fuzzy) <= arg.limit
       /\ \A k \in DOMAIN graph.rec :
            (~Returned(k) /\ score_ge(SimilarityToQuery(k), arg.cutoff))
              => \A i \in 1..Len(ret.fuzzy) :
                   ~score_gt(SimilarityToQuery(k), ret.fuzzy[i].match_score)

\* the position of key k in the store's iteration order
StorePos(k) == index_in(graph.keys, k)

\* keys k1 and k2 are equally similar to the normalized query, whichever of
\* the key and the query is taken first
Tied(k1, k2) ==
  /\ score_eq(SimilarityToQuery(k1), SimilarityToQuery(k2))
  /\ score_eq(ratio(k1, normalize_key(arg.q)), ratio(k2, normalize_key(arg.q)))

\* C13: when two store keys have the same similarity to the query, the one
\* that comes first in the store comes first in the fuzzy result, and at the
\* limit boundary it is the one that is kept.
C13_TiesInStoreOrder ==
  Handled("fuzzy_search")
    => /\ \A i, j \in 1..Len(ret.fuzzy) :
            (i < j /\ Tied(ret.fuzzy[i].key, ret.fuzzy[j].key))
              => StorePos(ret.fuzzy[i].key) < StorePos(ret.fuzzy[j].key)
       /\ \A k \in DOMAIN graph.rec : \A i \in 1..Len(ret.fuzzy) :
            (~Returned(k) /\ Tied(k, ret.fuzzy[i].key))
              => StorePos(ret.fuzzy[i].key) < StorePos(k)


\* texts s and t are equal up to letter case
SameIgnoringCase(s, t) ==
  Len(s) = Len(t) /\ \A i \in 1..Len(s) : LowerChar(s[i]) = LowerChar(t[i])

\* the relation list of the record stored at k
RelationsOf(k) == get(graph.rec[k], "relations", <<>>)

\* tag is, up to letter case, an element of the relation list of k
HasTag(k, tag) ==
  \E i \in 1..Len(RelationsOf(k)) : SameIgnoringCase(tag, RelationsOf(k)[i])

\* C14: relation search returns the entry of a record if and only if the tag
\* equals, up to letter case, an element of the record's relation list.
C14_RelationByMembership ==
  Handled("relation_search")
    => /\ \A k \in DOMAIN graph.rec : InSeq(k, KeysOf(ret.related)) <=> HasTag(k, arg.q)
       /\ \A i \in 1..Len(ret.related) : ret.related[i].key \in DOMAIN graph.rec

\* a tag written in another letter case than the stored one found a record,
\* and another record of the store was left out
C14_Witness ==
  /\ Handled("relation_search")
  /\ \E i \in 1..Len(ret.related) :
       ~InSeq(arg.q, RelationsOf(ret.related[i].key))
  /\ Len(ret.related) < Len(graph.keys)

\* text q occurs in text t, letter case ignored
OccursIgnoringCase(q, t) ==
  \E o \in 0..(Len(t) - Len(q)) :
    \A i \in 1..Len(q) : LowerChar(q[i]) = LowerChar(t[o + i])

NameOf(k) == get(graph.rec[k], "name", <<>>)
DescriptionOf(k) == get(graph.rec[k], "description", <<>>)

\* C15: keyword search returns the entry of a record if and only if the
\* query occurs, letter case ignored, in the record's name followed by its
\* description.
C15_KeywordBySubstring ==
  Handled("keyword_search")
    => /\ \A k \in DOMAIN graph.rec :
            InSeq(k, KeysOf(ret.keyword))
              <=> OccursIgnoringCase(arg.q, NameOf(k) \o DescriptionOf(k))
       /\ \A i \in 1..Len(ret.keyword) : ret.keyword[i].key \in DOMAIN graph.rec

\* a record was found by a text that starts in its name and ends in its
\* description, and another record was not found
C15_Witness ==
  /\ Handled("keyword_search")
  /\ \E i \in 1..Len(ret.keyword) :
       /\ ~OccursIgnoringCase(arg.q, NameOf(ret.keyword[i].key))
       /\ ~OccursIgnoringCase(arg.q, DescriptionOf(ret.keyword[i].key))
  /\ Len(ret.keyword) < Len(graph.keys)

MarksItsCuts(sn, text) ==
  \E a \in 0..Len(text) : \E b \in a..Len(text) :
    sn = (IF a > 0 THEN Ellipsis ELSE <<>>)
         \o slice(text, a, b)
         \o (IF b < Len(text) THEN Ellipsis ELSE <<>>)

\* C17: a keyword snippet starts with "..." exactly when text before the
\* window was cut off and ends with "..." exactly when text after the window
\* was cut off.
C17_EllipsesMarkCuts ==
  Handled("keyword_search")
    => \A i \in 1..Len(ret.keyword) :
         MarksItsCuts(ret.keyword[i].snippet, DescriptionOf(ret.keyword[i].key))


\* C18: the composite search returns exactly the four labels exact, fuzzy,
\* related and keyword, each holding what its strategy returns on the same
\* raw query; related is non-empty only when the raw query equals a stored
\* tag up to letter case.
C18_CompositeOfTheFour ==
  Handled("comprehensive_search")
    => /\ DOMAIN comprehensive_search(arg.q) = {"exact", "fuzzy", "related", "keyword"}
       /\ ret.exact = exact_search(arg.q)
       /\ ret.fuzzy = fuzzy_search(arg.q, DefaultLimit, DefaultCutoff)
       /\ ret.related = relation_search(arg.q)
       /\ ret.keyword = keyword_search(arg.q)
       /\ ret.related # <<>> => \E k \in DOMAIN graph.rec : HasTag(k, arg.q)

\* the composite of a query that is a stored tag only once normalized: the
\* exact, fuzzy or keyword part found something, the related part is empty
C18_Witness ==
  /\ Handled("comprehensive_search")
  /\ ret.related = <<>>
  /\ \E k \in DOMAIN graph.rec : HasTag(k, normalize_key(arg.q))
  /\ ret.exact # None \/ ret.fuzzy # <<>> \/ ret.keyword # <<>>

\* C19: an empty-string query gives an empty result from every search
\* strategy: exact returns absence and fuzzy, relation and keyword each
\* return an empty mapping.
C19_EmptyQueryFindsNothing ==
  ( /\ pc = "done"
    /\ op \in {"exact_search", "fuzzy_search", "relation_search", "keyword_search"}
    /\ arg.q = <<>> )
    => /\ ret.exact = None
       /\ ret.fuzzy = <<>>
       /\ ret.related = <<>>
       /\ ret.keyword = <<>>

\* C20: the normalized form of a query contains no whitespace, hyphen, slash
\* or upper-case character and no two consecutive underscores.
C20_NormalizedForm ==
  (pc = "done" /\ op \in {"exact_search", "fuzzy_search"})
    => LET n == normalize_key(arg.q)
       IN  /\ \A i \in 1..Len(n) :
                /\ ~IsSpace(n[i])
                /\ n[i] \notin {"-", "/"}
                /\ n[i] = LowerChar(n[i])
           /\ \A i \in 1..(Len(n) - 1) : ~(n[i] = "_" /\ n[i + 1] = "_")

(***************************************************************************)
(* C21 - C30                                                               *)
(***************************************************************************)
\* the places of the store where a relation tag is written: record k,
\* position i of its relation list
TagPlaces == { <<k, i>> \in (DOMAIN graph.rec) \X (1..8) : i <= Len(RelationsOf(k)) }

\* C23: stats() reports a concept count equal to the number of keys of the
\* store and a relation count equal to the sum of the lengths of the
\* relation lists of all records, so a tag carried by n records is counted
\* n times.
C23_StatsCountEveryTag ==
  Handled("stats")
    => /\ ret.stats.num_concepts = Cardinality(DOMAIN graph.rec)
       /\ ret.stats.num_relations = Cardinality(TagPlaces)

\* stats has run on a store where one tag is carried by two records
C23_Witness ==
  /\ Handled("stats")
  /\ \E p1, p2 \in TagPlaces :
       /\ p1[1] # p2[1]
       /\ RelationsOf(p1[1])[p1[2]] = RelationsOf(p2[1])[p2[2]]
  /\ ret.stats.num_relations > 0

\* record k of the searched store has no field f
Lacks(k, f) == f \notin DOMAIN graph.rec[k]

\* the explanation md has a line of the given kind; the first such line
HasLine(md, tag) == \E i \in 1..Len(md) : md[i].tag = tag
LineOf(md, tag) == md[CHOOSE i \in 1..Len(md) : md[i].tag = tag]

\* the tutor has returned a selected record
Selected == Answered /\ ret.out.concept # None

C24_SectionsFollowFields ==
  Selected
    => LET r == Deref(ret.out.concept)
           md == ret.out.answer_markdown
       IN  /\ HasLine(md, "title")
           /\ "name" \in DOMAIN r => LineOf(md, "title").val = r.name
           /\ HasLine(md, "type")
           /\ HasLine(md, "category")
           /\ HasLine(md, "core_operations") <=> get(r, "basic_ops", <<>>) # <<>>
           /\ HasLine(md, "use_cases") <=> get(r, "use_cases", <<>>) # <<>>
           /\ HasLine(md, "relations") <=> get(r, "relations", <<>>) # <<>>
           /\ HasLine(md, "explanation") <=> get(r, "description", <<>>) # <<>>

\* C26: whenever explain_concept or answer selects a record, the reported
\* matched_key is not None and is the store key under which the selected
\* record is stored.
C26_MatchedKeyReported ==
  Selected
    => /\ ret.out.matched_key # None
       /\ ret.out.matched_key = RecordKey(ret.out.concept)

\* C27: no search, stats, selection or answer operation changes the loaded
\* store: in every step the keys and the records of both loads stay as
\* they are.
C27_StoreNeverChanges == [][kg' = kg /\ graph' = graph]_vars

\* a record has been selected and explained, the store being as loaded
C27_Witness ==
  /\ Handled("answer")
  /\ ret.out.concept # None
  /\ graph = file
  /\ kg = file

\* C29: when the normalized query is a store key whose record has no field
\* at all, the selector still selects that record, with source exact.
C29_EmptyRecordSelectedExact ==
  (Explained /\ exact_search(searched[1]) # None
             /\ DOMAIN Deref(exact_search(searched[1])) = {})
    => /\ ret.out.concept = exact_search(searched[1])
       /\ ret.out.match_source = "exact"

\* a search has run: a tutor request was handled, or the command loop has
\* called the search engine
SearchHasRun == pc = "done" \/ cli.calls # <<>>

\* C21: constructing the search engine or the tutor engine on a backing
\* file that does not exist fails with a not-found error and yields no
\* usable engine; no search runs on an unloaded store.
C21_NoEngineWithoutFile ==
  /\ [][(file = Missing /\ pc \in {"new", "kg_loaded"} /\ pc' # pc)
          => (pc' = "failed" /\ ret'.error = "FileNotFoundError"
              /\ kg' = Missing /\ graph' = Missing)]_vars
  /\ [][pc = "failed" => (pc' = "failed" /\ kg' = kg /\ graph' = graph /\ cli'.calls = <<>>)]_vars
  /\ [](SearchHasRun => graph \in Stores)
  /\ [](pc = "done" => kg \in Stores)

\* a construction has failed for want of the file; the command loop ended
C21_Witness ==
  /\ pc = "failed"
  /\ file = Missing
  /\ ret.error = "FileNotFoundError"
  /\ cli.at = "exited"

\* C28: the store is loaded once per tutor engine: once the engine is
\* constructed, the copy the tutor resolves keys in and the store its
\* search engine searches hold the same keys and records, even when the
\* builder rewrites the file during the construction, so every key the
\* fuzzy or keyword search returns resolves to a record of the tutor's copy.
C28_OneLoad ==
  /\ (pc \in {"idle", "done"} /\ kg # Missing) => kg = graph
  /\ Explained
       => /\ \A i \in 1..Len(Composite.fuzzy) : kg_get(Composite.fuzzy[i].key) # None
          /\ \A i \in 1..Len(Composite.keyword) : kg_get(Composite.keyword[i].key) # None

\* C30: in the command loop the stats command, in any letter case, prints
\* the concept count, the relation count and the source file of the loaded
\* store without reaching the error handler, runs no search and lets the
\* loop go on to the next prompt.
C30_StatsCommandPrints ==
  (cli.calls # <<>> /\ lower(cli.query) = <<"s", "t", "a", "t", "s">>)
    => /\ cli.at = "passed"
       /\ cli.calls = <<"stats">>
       /\ cli.caught = "none"
       /\ \E i, j, k \in 1..Len(cli.printed) :
            /\ cli.printed[i] = [tag |-> "num_concepts", val |-> Len(graph.keys)]
            /\ cli.printed[j] = [tag |-> "num_relations", val |-> stats.num_relations]
            /\ cli.printed[k].tag \in DOMAIN stats
            /\ cli.printed[k].val = "data/knowledge_graph.json"

\* attempt j of the log gave a text
Gave(j) == fetch.tried[j].len > 0

\* the log follows the fixed order: the six candidate pages in their order,
\* then the local LLM, each source asked only after every source before it
\* has given nothing
InFixedOrder ==
  /\ Len(fetch.tried) <= 7
  /\ \A j \in 1..Len(fetch.tried) :
       /\ j <= 6 => (fetch.tried[j].source = "web" /\ fetch.tried[j].url = j)
       /\ j = 7 => fetch.tried[j].source = "llm"
       /\ \A i \in 1..(j - 1) : ~Gave(i)

\* what is returned: the text of the last source asked when it gave one,
\* the generic sentence only when the six pages and the LLM gave nothing
ReturnsFirstSuccess ==
  LET n == Len(fetch.tried)
  IN  /\ n >= 1
      /\ fetch.result.len > 0
      /\ Gave(n) => fetch.result = [source |-> fetch.tried[n].source,
                                     len |-> fetch.tried[n].len]
      /\ ~Gave(n) => /\ n = 7
                     /\ fetch.tried[7].got \in {"unavailable", "raises", "response"}
                     /\ fetch.result.source = "fallback"

\* C25: fetch_description tries its sources in a fixed order and stops at
\* the first success: the candidate pages in order, the local LLM only
\* after every page has failed, the generic sentence only after the LLM is
\* unavailable or fails; whatever the failures it always terminates and
\* returns a non-empty description.
C25_FixedOrderAndTermination ==
  /\ [](InFixedOrder)
  /\ [](fetch.at = "returned" => ReturnsFirstSuccess)
  /\ [][(\E j \in 1..Len(fetch.tried) : Gave(j)) => fetch'.tried \in {fetch.tried, <<>>}]_vars
  /\ (fetch.at \in {"web", "llm"}) ~> (fetch.at = "returned")

\* the generic sentence is returned after six pages that failed in three
\* ways and an LLM that answered nothing
C25_Witness ==
  /\ fetch.at = "returned"
  /\ fetch.result.source = "fallback"
  /\ Len(fetch.tried) = 7
  /\ {fetch.tried[j].got : j \in 1..6} = {"raises", "status_404", "status_200"}
  /\ fetch.tried[7].got = "response"

=============================================================================
